---- MODULE Spec2Model ----
(***************************************************************************)
(* A model of mahou (src/main.rs): the scanner (Lexer), the token          *)
(* classifier (tokenize) and the statement grouper (Parser).               *)
(*                                                                         *)
(* A character is a one-element string; a text (String, &str, Vec<char>)   *)
(* is a sequence of characters.  The atoms "U+00E9" and "U+20AC" stand for *)
(* the characters e-acute and the euro sign, whose UTF-8 encodings are two *)
(* and three bytes long.  Rust indices are 0-based, sequences here are     *)
(* 1-based: chars[i] of the source is chars[i + 1] here.                   *)
(***************************************************************************)
EXTENDS Integers, Sequences, FiniteSets, TLC

VARIABLES
    contents,       \* Lexer.contents: the padded source text
    chars,          \* Lexer.chars
    index,          \* Lexer.index
    previous_char,  \* Lexer.previous_char
    current_char,   \* Lexer.current_char
    next_char,      \* Lexer.next_char
    tokens,         \* Lexer.tokens
    current_part,   \* the local current_part of Lexer::lexer
    line_num,       \* the local line_num of Lexer::lexer
    pc,             \* where the scanner is: "new", "loop", "done", "panic"
                    \* ("idle" where no scan is run)
    part,           \* the argument of a call of tokenize
    token,          \* what that call returned ("none" before it returns)
    p_tokens,       \* Parser.tokens
    toks,           \* the local toks of Parser::parse
    tok_i,          \* how many elements of toks the for loop has taken
    current_line,   \* the local current_line of Parser::parse
    output_lines,   \* the local output_lines of Parser::parse
    returned,       \* what the calls of Parser::parse returned, in order
    ppc             \* where the grouper is: "new", "loop", "done", "panic"
                    \* ("idle" where no grouping is run)

lexvars == <<contents, chars, index, previous_char, current_char, next_char,
             tokens, current_part, line_num, pc>>
tokvars == <<part, token>>
parsevars ==
    <<p_tokens, toks, tok_i, current_line, output_lines, returned, ppc>>
vars == <<lexvars, tokvars, parsevars>>

-----------------------------------------------------------------------------
(* Bounds of the model.                                                    *)

\* Longest source text enumerated exhaustively over Alphabet.
MaxLen == 4
\* Longest text handed to tokenize, enumerated exhaustively over TextAlphabet.
MaxTextLen == 2
\* Longest token sequence handed to the Parser, enumerated over Words.
MaxToks == 4
\* Longest source text of a whole run (scan, then grouping), enumerated
\* exhaustively over Alphabet.
MaxMainLen == 3
\* How many times parse is called on one Parser.
MaxCalls == 2

-----------------------------------------------------------------------------
(* Texts.                                                                  *)

\* str.len(): the length of a text in bytes, the sum of its characters'
\* UTF-8 lengths.
len_utf8(ch) ==
    CASE ch = "U+00E9" -> 2
      [] ch = "U+20AC" -> 3
      [] OTHER -> 1

RECURSIVE str_len(_)
str_len(s) == IF s = <<>> THEN 0 ELSE len_utf8(Head(s)) + str_len(Tail(s))

\* The concatenation of a sequence of texts.
RECURSIVE Flatten(_)
Flatten(ss) == IF ss = <<>> THEN <<>> ELSE Head(ss) \o Flatten(Tail(ss))

\* All sequences over S of length at most n.
SeqsUpTo(S, n) == UNION {[1..k -> S] : k \in 0..n}

-----------------------------------------------------------------------------
(* Character classes and the token boundary rule.                          *)

\* A mutation of is_char_whitespace: the newline is missing.
is_char_whitespace_no_newline(ch) == ch \in {"\t", " "}

is_char_whitespace(ch) == ch \in {"\t", " ", "\n"}

is_char_symbol(ch) == ch \in {"+", "-", "*", "/", ">", "<", "=", ";", "$"}

is_char_numeric(ch) ==
    ch \in {"0", "1", "2", "3", "4", "5", "6", "7", "8", "9"}

\* A mutation of ends_token: the check of the current character is missing.
ends_token_next_only(cur, next) ==
    is_char_whitespace(next) \/ is_char_symbol(next)

ends_token(cur, next) ==
    IF is_char_whitespace(next) THEN TRUE
    ELSE IF is_char_symbol(cur) THEN TRUE
    ELSE IF is_char_symbol(next) THEN TRUE
    ELSE IF is_char_whitespace(cur) THEN FALSE
    ELSE FALSE

-----------------------------------------------------------------------------
(* tokenize.                                                               *)

\* The match of tokenize on the whole text.
match_part(p) ==
    CASE p = <<"-">> -> "Minus"
      [] p = <<"+">> -> "Plus"
      [] p = <<"/">> -> "Divide"
      [] p = <<"*">> -> "Multiply"
      [] p = <<"=">> -> "Assign"
      [] p = <<"$">> -> "Var"
      [] p = <<";">> -> "Semi"
      [] p = <<"s", "e", "t">> -> "Set"
      [] p = <<"j", "u", "m", "p">> -> "Jump"
      [] p = <<"p", "r", "i", "n", "t">> -> "Print"
      [] OTHER -> "Identifier"

\* The loop of tokenize: the first numeric character, if any, breaks out of
\* it with Numeric.
RECURSIVE refine(_, _)
refine(tk, p) ==
    IF p = <<>> THEN tk
    ELSE IF is_char_numeric(Head(p)) THEN "Numeric"
    ELSE refine(tk, Tail(p))

\* A mutation of tokenize: Numeric only when every character is a digit.
tokenize_all_digits(p) ==
    LET tk == match_part(p) IN
    IF tk = "Identifier" /\ p # <<>>
       /\ \A k \in 1..Len(p) : is_char_numeric(p[k])
    THEN "Numeric" ELSE tk

tokenize(p) ==
    LET tk == match_part(p) IN
    IF tk = "Identifier" THEN refine(tk, p) ELSE tk

-----------------------------------------------------------------------------
(* The scanner.                                                            *)

\* A mutation of Padding: one space of padding only.
PaddingShort == <<" ">>

\* The padding new_lexer appends to the source.
Padding == <<" ", " ", " ", " ">>

\* The characters of the exhaustively enumerated sources.
Alphabet == {"a", "1", "-", ";", " ", "\t", "\n", "U+00E9"}

Str_set_a == <<"s", "e", "t", " ", "a">>
Str_jump_m2 == <<"j", "u", "m", "p", " ", "-", "2">>
Str_jump_m2_semi == <<"j", "u", "m", "p", " ", "-", "2", ";">>
Str_set_a_0 == <<"s", "e", "t", " ", "a", " ", "=", " ", "0", ";">>
Str_tabs == <<"a", "\t", "$", "b", "\n", "\n", "x", ">", "1">>
Str_euro == <<"a", " ", "U+20AC", ";">>

\* The sources of the repository's tests and of the documented examples.
TestInputs ==
    {Str_set_a, Str_jump_m2, Str_jump_m2_semi, Str_set_a_0, Str_tabs, Str_euro}

Inputs == SeqsUpTo(Alphabet, MaxLen) \cup TestInputs

\* new_lexer(source): the fields of the Lexer it returns.
new_lexer(source) ==
    /\ contents = source \o Padding
    /\ chars = <<>>
    /\ index = 0
    /\ previous_char = " "
    /\ current_char = " "
    /\ next_char = " "
    /\ tokens = <<>>

\* The source the Lexer was built from.
Source == SubSeq(contents, 1, Len(contents) - Len(Padding))

\* A mutation of next: the first two assignments of move_pointer are
\* swapped, so that previous_char receives the new current_char.
next_swapped ==
    /\ previous_char' = next_char
    /\ current_char' = next_char
    /\ IF index < Len(chars)
       THEN /\ next_char' = chars[index + 1]
            /\ index' = index + 1
            /\ pc' = pc
       ELSE /\ next_char' = next_char
            /\ index' = index
            /\ pc' = "panic"

\* Lexer::next: move_pointer, then index += 1.  The read chars[index] of
\* move_pointer panics when index is not below chars.len(), after the two
\* assignments before it.
next ==
    /\ previous_char' = current_char
    /\ current_char' = next_char
    /\ IF index < Len(chars)
       THEN /\ next_char' = chars[index + 1]
            /\ index' = index + 1
            /\ pc' = pc
       ELSE /\ next_char' = next_char
            /\ index' = index
            /\ pc' = "panic"

\* The condition of the while loop: chars_len is contents.len(), in bytes.
loop_cond == index + 1 <= str_len(contents)

\* The head of Lexer::lexer, up to the loop.
LexerBegin ==
    /\ pc = "new"
    /\ UNCHANGED <<tokvars, parsevars>>
    /\ chars' = contents
    /\ current_part' = <<>>
    /\ index' = 0
    /\ line_num' = 1
    /\ pc' = "loop"
    /\ UNCHANGED <<contents, previous_char, current_char, next_char, tokens>>

\* A mutation of LexNewline: the line counter is not incremented.
LexNewlineNoCount ==
    /\ pc = "loop"
    /\ UNCHANGED <<tokvars, parsevars>>
    /\ loop_cond
    /\ current_char = "\n"
    /\ next
    /\ UNCHANGED <<contents, chars, tokens, current_part, line_num>>

\* A mutation of LexNewline: the branch continues without calling next.
LexNewlineStuck ==
    /\ pc = "loop"
    /\ UNCHANGED <<tokvars, parsevars>>
    /\ loop_cond
    /\ current_char = "\n"
    /\ line_num' = line_num + 1
    /\ UNCHANGED <<contents, chars, index, previous_char, current_char,
                   next_char, tokens, current_part, pc>>

\* An iteration on a newline.
LexNewline ==
    /\ pc = "loop"
    /\ UNCHANGED <<tokvars, parsevars>>
    /\ loop_cond
    /\ current_char = "\n"
    /\ line_num' = line_num + 1
    /\ next
    /\ UNCHANGED <<contents, chars, tokens, current_part>>

\* An iteration on a space or a tab.
LexSkip ==
    /\ pc = "loop"
    /\ UNCHANGED <<tokvars, parsevars>>
    /\ loop_cond
    /\ current_char # "\n"
    /\ is_char_whitespace(current_char)
    /\ next
    /\ UNCHANGED <<contents, chars, tokens, current_part, line_num>>

\* An iteration that pushes the character and does not end the token.
LexPush ==
    /\ pc = "loop"
    /\ UNCHANGED <<tokvars, parsevars>>
    /\ loop_cond
    /\ current_char # "\n"
    /\ ~is_char_whitespace(current_char)
    /\ ~ends_token(current_char, next_char)
    /\ current_part' = Append(current_part, current_char)
    /\ next
    /\ UNCHANGED <<contents, chars, tokens, line_num>>

\* An iteration that pushes the character and emits the token.
LexEmit ==
    /\ pc = "loop"
    /\ UNCHANGED <<tokvars, parsevars>>
    /\ loop_cond
    /\ current_char # "\n"
    /\ ~is_char_whitespace(current_char)
    /\ ends_token(current_char, next_char)
    /\ LET pushed == Append(current_part, current_char) IN
       tokens' = Append(tokens,
                   [token |-> tokenize(pushed),
                    part |-> pushed,
                    line_num |-> line_num,
                    char_num |-> index - str_len(pushed)])
    /\ current_part' = <<>>
    /\ next
    /\ UNCHANGED <<contents, chars, line_num>>

\* The loop ends and lexer returns.
LexReturn ==
    /\ pc = "loop"
    /\ UNCHANGED <<tokvars, parsevars>>
    /\ ~loop_cond
    /\ pc' = "done"
    /\ UNCHANGED <<contents, chars, index, previous_char, current_char,
                   next_char, tokens, current_part, line_num>>

-----------------------------------------------------------------------------
(* Idle values of the components a specification does not run.             *)

LexIdle ==
    /\ new_lexer(<<>>)
    /\ current_part = <<>>
    /\ line_num = 1
    /\ pc = "idle"

TokIdle == part = <<>> /\ token = "none"

ParseIdle ==
    /\ p_tokens = <<>>
    /\ toks = <<>>
    /\ tok_i = 0
    /\ current_line = <<>>
    /\ output_lines = <<>>
    /\ returned = <<>>
    /\ ppc = "idle"

-----------------------------------------------------------------------------
(* The scanner's specification: new_lexer(source), then lexer().           *)

Init ==
    /\ \E source \in Inputs : new_lexer(source)
    /\ current_part = <<>>
    /\ line_num = 1
    /\ pc = "new"
    /\ TokIdle
    /\ ParseIdle

Next ==
    \/ LexerBegin
    \/ LexNewline
    \/ LexSkip
    \/ LexPush
    \/ LexEmit
    \/ LexReturn

Spec == Init /\ [][Next]_vars

-----------------------------------------------------------------------------
(* What the claims about the scanner speak of, stated on the source text   *)
(* alone.                                                                  *)

\* Space, tab and newline.
Blank == {" ", "\t", "\n"}

\* The fixed set of symbol characters.
SymbolChars == {"+", "-", "*", "/", ">", "<", "=", ";", "$"}

Digits == {"0", "1", "2", "3", "4", "5", "6", "7", "8", "9"}

\* A text with its spaces, tabs and newlines removed.
Strip(s) == SelectSeq(s, LAMBDA c : c \notin Blank)

\* Position p of s is the first character of a token: a character that is
\* not blank and that is a symbol, or follows a blank or a symbol, or is
\* the first of the text.
IsStart(s, p) ==
    /\ s[p] \notin Blank
    /\ \/ p = 1
       \/ s[p] \in SymbolChars
       \/ s[p - 1] \in Blank \cup SymbolChars

\* The 1-based positions in s of the first characters of its tokens, in
\* order.
RECURSIVE StartsFrom(_, _)
StartsFrom(s, p) ==
    IF p > Len(s) THEN <<>>
    ELSE (IF IsStart(s, p) THEN <<p>> ELSE <<>>) \o StartsFrom(s, p + 1)

TokenStarts == StartsFrom(Source, 1)

\* The texts of the emitted tokens, in order.
Parts == [k \in 1..Len(tokens) |-> tokens[k].part]

\* The kinds of the emitted tokens, in order.
Kinds == [k \in 1..Len(tokens) |-> tokens[k].token]

\* The first n characters of s (none when n < 1).
FirstN(s, n) == IF n < 1 THEN <<>> ELSE SubSeq(s, 1, n)

\* C1: for every input text, new_lexer followed by lexer() never fails:
\* every read chars[index] of move_pointer is inside the padded buffer.
C1_NeverFails == pc # "panic"

\* C2: the texts of the emitted tokens, concatenated in order and followed
\* by the accumulating buffer, are the characters scanned so far with the
\* spaces, tabs and newlines removed; when the scan returns they are the
\* whole source so stripped, and the buffer is empty; so they are when the
\* scan stops on an out of range read.
C2_Reconstructs ==
    /\ pc = "loop" =>
         Flatten(Parts) \o current_part = Strip(FirstN(chars, index - 2))
    /\ pc \in {"done", "panic"} =>
         /\ Flatten(Parts) = Strip(Source)
         /\ current_part = <<>>

\* A scan that returned two tokens or more of a source holding a blank.
C2_Witness ==
    /\ pc = "done"
    /\ Len(tokens) >= 2
    /\ Strip(Source) # Source

\* C3: no emitted token holds a symbol character together with another
\* character; when the scan ends, the one-symbol tokens are, in order,
\* the occurrences of symbol characters in the source; a '-' directly
\* followed by a digit yields a Minus token followed by a Numeric token.
C3_SymbolsAlone ==
    /\ \A k \in 1..Len(tokens) :
         \A j \in 1..Len(tokens[k].part) :
           tokens[k].part[j] \in SymbolChars => Len(tokens[k].part) = 1
    /\ pc \in {"done", "panic"} =>
         /\ SelectSeq(Parts, LAMBDA t : t[1] \in SymbolChars)
              = [j \in 1..Len(SelectSeq(Source, LAMBDA c : c \in SymbolChars))
                   |-> <<SelectSeq(Source, LAMBDA c : c \in SymbolChars)[j]>>]
         /\ Len(tokens) = Len(TokenStarts)
         /\ \A k \in 1..Len(tokens) :
              LET p == TokenStarts[k] IN
              (Source[p] = "-" /\ p < Len(Source) /\ Source[p + 1] \in Digits)
                => /\ tokens[k].token = "Minus"
                   /\ tokens[k].part = <<"-">>
                   /\ tokens[k + 1].token = "Numeric"
         /\ Source = Str_jump_m2_semi =>
              /\ Kinds = <<"Jump", "Minus", "Numeric", "Semi">>
              /\ Parts = <<<<"j", "u", "m", "p">>, <<"-">>, <<"2">>, <<";">>>>

\* A scan that returned Minus then Numeric for a '-' written between a
\* letter and a digit.
C3_Witness ==
    /\ pc = "done"
    /\ Source = <<"a", "-", "1">>
    /\ Kinds = <<"Identifier", "Minus", "Numeric">>

\* C5: the column of every emitted token is the 1-based position of the
\* token's first character in the source, counted from the start of the
\* whole text.
C5_Column ==
    /\ Len(tokens) <= Len(TokenStarts)
    /\ \A k \in 1..Len(tokens) : tokens[k].char_num = TokenStarts[k]

\* C6: the line of every emitted token is 1 plus the number of newlines
\* in the source before the token's first character.
C6_Line ==
    /\ Len(tokens) <= Len(TokenStarts)
    /\ \A k \in 1..Len(tokens) :
         tokens[k].line_num
           = 1 + Cardinality({p \in 1..(TokenStarts[k] - 1) : Source[p] = "\n"})

\* A scan that returned a token ending right before a newline, on line 1,
\* and a later token on line 3.
C6_Witness ==
    /\ pc = "done"
    /\ Source = <<"a", "\n", "\n", "a">>
    /\ Len(tokens) = 2
    /\ tokens[1].line_num = 1
    /\ tokens[2].line_num = 3

-----------------------------------------------------------------------------
(* The classifier's specification: one call of tokenize on a text.         *)

\* The characters of the exhaustively enumerated texts.
TextAlphabet ==
    {"a", "s", "1", "0", "-", "+", "/", "*", "=", "$", ";", ">", "<"}

W_set == <<"s", "e", "t">>
W_jump == <<"j", "u", "m", "p">>
W_print == <<"p", "r", "i", "n", "t">>

\* The texts of the repository's tests, the keywords and texts near them.
TestTexts ==
    {W_set, W_jump, W_print,
     <<"s", "e", "t", "x">>, <<"s", "e">>, <<"S", "e", "t">>,
     <<"j", "u", "m", "p", "2">>, <<"p", "r", "i", "n">>,
     <<"a", "b", "9">>, <<"1", "2", "3">>, <<"U+00E9">>}

Texts == (SeqsUpTo(TextAlphabet, MaxTextLen) \ {<<>>}) \cup TestTexts

InitTok ==
    /\ \E p \in Texts : part = p
    /\ token = "none"
    /\ LexIdle
    /\ ParseIdle

\* The call tokenize(part) returns.
Tokenize ==
    /\ token = "none"
    /\ token' = tokenize(part)
    /\ UNCHANGED <<part, lexvars, parsevars>>

NextTok == Tokenize

SpecTok == InitTok /\ [][NextTok]_vars

\* The exact-match table of the classifier.
C4_Table ==
    {<<<<"-">>, "Minus">>, <<<<"+">>, "Plus">>, <<<<"/">>, "Divide">>,
     <<<<"*">>, "Multiply">>, <<<<"=">>, "Assign">>, <<<<"$">>, "Var">>,
     <<<<";">>, "Semi">>, <<W_set, "Set">>, <<W_jump, "Jump">>,
     <<W_print, "Print">>}

-----------------------------------------------------------------------------
(* The grouper.                                                            *)

\* The texts of the tokens of the exhaustively enumerated token sequences.
Words ==
    {W_set, W_print, W_jump, <<"a">>, <<"0">>, <<"=">>, <<"+">>, <<";">>}

Prog_set_a_0 == <<W_set, <<"a">>, <<"=">>, <<"0">>, <<";">>>>
Prog_set_long ==
    <<W_set, <<"a">>, <<"=">>, <<"0">>, <<"+">>, <<"a">>, <<";">>>>
Prog_print_a == <<W_print, <<"a">>, <<";">>>>
Prog_print_a_open == <<W_print, <<"a">>>>
Prog_x_plus_1 == <<<<"x">>, <<"+">>, <<"1">>, <<";">>>>
Prog_example ==
    <<W_set, <<"a">>, <<"=">>, <<"0">>, <<";">>, W_print, <<"a">>, <<";">>,
      <<"a">>>>

\* The token texts of the documented examples.
TestPrograms ==
    {Prog_set_a_0, Prog_set_long, Prog_print_a, Prog_print_a_open,
     Prog_x_plus_1, Prog_example}

Programs == SeqsUpTo(Words, MaxToks) \cup TestPrograms

\* The column of the k-th of the token texts ws written with one space
\* between them.
RECURSIVE Column(_, _)
Column(ws, k) == IF k = 1 THEN 1 ELSE Column(ws, k - 1) + Len(ws[k - 1]) + 1

\* Parser { tokens: lexer.tokens }: the tokens the scanner returns for the
\* token texts ws written on one line with one space between them.
lexer_tokens(ws) ==
    [k \in 1..Len(ws) |->
       [token |-> tokenize(ws[k]),
        part |-> ws[k],
        line_num |-> 1,
        char_num |-> Column(ws, k)]]

\* A mutation of set: the value is read one position early.
set_third(line) == line[2].part \o <<" ", "=", " ">> \o line[3].part

\* Parser::set.
set(line) == line[2].part \o <<" ", "=", " ">> \o line[4].part

\* A mutation of print: the name is read one position early.
print_first(line) ==
    <<"p", "r", "i", "n", "t", "(">> \o line[1].part \o <<")">>

\* Parser::print.
print(line) == <<"p", "r", "i", "n", "t", "(">> \o line[2].part \o <<")">>

\* String::pop: the text without its last character, if it has one.
pop(str) == IF str = <<>> THEN <<>> ELSE SubSeq(str, 1, Len(str) - 1)

\* A mutation of exec: the last character is not removed.
exec_no_pop(line) == Flatten([k \in 1..Len(line) |-> line[k].part])

\* Parser::exec.
exec(line) == pop(Flatten([k \in 1..Len(line) |-> line[k].part]))

\* A mutation of parse_head: the tokens are moved out of the Parser
\* (std::mem::take) where the code clones them.
parse_head_take ==
    /\ current_line' = <<>>
    /\ output_lines' = <<>>
    /\ toks' = p_tokens
    /\ p_tokens' = <<>>
    /\ tok_i' = 0
    /\ ppc' = "loop"
    /\ UNCHANGED <<returned, lexvars, tokvars>>

\* The head of Parser::parse, up to the loop.
parse_head ==
    /\ current_line' = <<>>
    /\ output_lines' = <<>>
    /\ toks' = p_tokens
    /\ tok_i' = 0
    /\ ppc' = "loop"
    /\ UNCHANGED <<p_tokens, returned, lexvars, tokvars>>

\* The first call of parse on the Parser.
ParseBegin ==
    /\ ppc = "new"
    /\ parse_head

\* A further call of parse on the same Parser, after a call returned.
ParseAgain ==
    /\ ppc = "done"
    /\ Len(returned) < MaxCalls
    /\ parse_head

\* An iteration on a token that is not a semicolon.
ParsePush ==
    /\ ppc = "loop"
    /\ tok_i < Len(toks)
    /\ toks[tok_i + 1].token # "Semi"
    /\ current_line' = Append(current_line, toks[tok_i + 1])
    /\ tok_i' = tok_i + 1
    /\ UNCHANGED <<p_tokens, toks, output_lines, returned, ppc, lexvars, tokvars>>

\* A mutation of ParseSet: a set statement too short to index is skipped.
ParseSetSkip ==
    /\ ppc = "loop"
    /\ tok_i < Len(toks)
    /\ toks[tok_i + 1].token = "Semi"
    /\ LET line == Append(current_line, toks[tok_i + 1]) IN
       /\ line[1].token = "Set"
       /\ output_lines' = IF Len(line) >= 4
                          THEN Append(output_lines, set(line))
                          ELSE output_lines
    /\ current_line' = <<>>
    /\ tok_i' = tok_i + 1
    /\ UNCHANGED <<p_tokens, toks, returned, ppc, lexvars, tokvars>>

\* An iteration on a semicolon that closes a line starting with set.  The
\* reads line[1] and line[3] of Parser::set panic on a line of fewer than
\* four tokens.
ParseSet ==
    /\ ppc = "loop"
    /\ tok_i < Len(toks)
    /\ toks[tok_i + 1].token = "Semi"
    /\ LET line == Append(current_line, toks[tok_i + 1]) IN
       /\ line[1].token = "Set"
       /\ IF Len(line) >= 4
          THEN /\ output_lines' = Append(output_lines, set(line))
               /\ current_line' = <<>>
               /\ ppc' = ppc
          ELSE /\ output_lines' = output_lines
               /\ current_line' = line
               /\ ppc' = "panic"
    /\ tok_i' = tok_i + 1
    /\ UNCHANGED <<p_tokens, toks, returned, lexvars, tokvars>>

\* A mutation of ParsePrint: the name is read one position late, at
\* line[2].
ParsePrintThird ==
    /\ ppc = "loop"
    /\ tok_i < Len(toks)
    /\ toks[tok_i + 1].token = "Semi"
    /\ LET line == Append(current_line, toks[tok_i + 1]) IN
       /\ line[1].token = "Print"
       /\ IF Len(line) >= 3
          THEN /\ output_lines' =
                    Append(output_lines,
                           <<"p", "r", "i", "n", "t", "(">> \o line[3].part
                             \o <<")">>)
               /\ current_line' = <<>>
               /\ ppc' = ppc
          ELSE /\ output_lines' = output_lines
               /\ current_line' = line
               /\ ppc' = "panic"
    /\ tok_i' = tok_i + 1
    /\ UNCHANGED <<p_tokens, toks, returned, lexvars, tokvars>>

\* An iteration on a semicolon that closes a line starting with print.
\* The read line[1] of Parser::print panics on a line of one token.
ParsePrint ==
    /\ ppc = "loop"
    /\ tok_i < Len(toks)
    /\ toks[tok_i + 1].token = "Semi"
    /\ LET line == Append(current_line, toks[tok_i + 1]) IN
       /\ line[1].token = "Print"
       /\ IF Len(line) >= 2
          THEN /\ output_lines' = Append(output_lines, print(line))
               /\ current_line' = <<>>
               /\ ppc' = ppc
          ELSE /\ output_lines' = output_lines
               /\ current_line' = line
               /\ ppc' = "panic"
    /\ tok_i' = tok_i + 1
    /\ UNCHANGED <<p_tokens, toks, returned, lexvars, tokvars>>

\* An iteration on a semicolon that closes any other line.
ParseExec ==
    /\ ppc = "loop"
    /\ tok_i < Len(toks)
    /\ toks[tok_i + 1].token = "Semi"
    /\ LET line == Append(current_line, toks[tok_i + 1]) IN
       /\ line[1].token \notin {"Set", "Print"}
       /\ output_lines' = Append(output_lines, exec(line))
    /\ current_line' = <<>>
    /\ tok_i' = tok_i + 1
    /\ UNCHANGED <<p_tokens, toks, returned, ppc, lexvars, tokvars>>

\* A mutation of ParseReturn: the tokens left after the last semicolon are
\* rendered as a last statement.
ParseReturnFlush ==
    /\ ppc = "loop"
    /\ tok_i = Len(toks)
    /\ output_lines' = IF current_line = <<>> THEN output_lines
                       ELSE Append(output_lines, exec(current_line))
    /\ returned' = Append(returned, output_lines')
    /\ ppc' = "done"
    /\ UNCHANGED <<p_tokens, toks, tok_i, current_line, lexvars, tokvars>>

\* The loop ends and parse returns output_lines.
ParseReturn ==
    /\ ppc = "loop"
    /\ tok_i = Len(toks)
    /\ returned' = Append(returned, output_lines)
    /\ ppc' = "done"
    /\ UNCHANGED <<p_tokens, toks, tok_i, current_line, output_lines,
                   lexvars, tokvars>>

InitParse ==
    /\ \E ws \in Programs : p_tokens = lexer_tokens(ws)
    /\ toks = <<>>
    /\ tok_i = 0
    /\ current_line = <<>>
    /\ output_lines = <<>>
    /\ returned = <<>>
    /\ ppc = "new"
    /\ LexIdle
    /\ TokIdle

NextParse ==
    \/ ParseBegin
    \/ ParsePush
    \/ ParseSet
    \/ ParsePrint
    \/ ParseExec
    \/ ParseReturn

SpecParse == InitParse /\ [][NextParse]_vars

-----------------------------------------------------------------------------
(* What the claims about the grouper speak of, stated on the token         *)
(* sequence alone.                                                         *)

\* The positions of the Terminator tokens of ts, in order.
RECURSIVE TermsFrom(_, _)
TermsFrom(ts, k) ==
    IF k > Len(ts) THEN <<>>
    ELSE (IF ts[k].token = "Semi" THEN <<k>> ELSE <<>>) \o TermsFrom(ts, k + 1)

Terms == TermsFrom(p_tokens, 1)

\* The n-th statement: the tokens after the previous Terminator up to the
\* n-th Terminator, included.
Stmt(n) ==
    SubSeq(p_tokens, IF n = 1 THEN 1 ELSE Terms[n - 1] + 1, Terms[n])

\* The number of Terminators among the first k tokens.
TermsUpTo(k) == Cardinality({j \in 1..k : p_tokens[j].token = "Semi"})

\* The texts of the tokens of st but the last, concatenated.
TextBeforeLast(st) == Flatten([k \in 1..(Len(st) - 1) |-> st[k].part])

\* A statement starting with Keyword(Set) that has fewer than four tokens.
ShortSet(n) == Stmt(n)[1].token = "Set" /\ Len(Stmt(n)) < 4

\* The rendering of a statement under the three render rules.
Rendered(st) ==
    CASE st[1].token = "Set" ->
           st[2].part \o <<" ", "=", " ">> \o st[4].part
      [] st[1].token = "Print" ->
           <<"p", "r", "i", "n", "t", "(">> \o st[2].part \o <<")">>
      [] OTHER -> TextBeforeLast(st)

\* C7: when parse returns, it returns exactly one rendered string per
\* Terminator, the n-th being the rendering of the n-th statement; tokens
\* after the last Terminator contribute nothing, and the tokens of
\* "print a" yield no rendered string.
C7_OnePerTerminator ==
    /\ ppc = "loop" => Len(output_lines) = TermsUpTo(tok_i)
    /\ ppc = "done" =>
         /\ Len(output_lines) = Len(Terms)
         /\ \A n \in 1..Len(Terms) : output_lines[n] = Rendered(Stmt(n))
         /\ p_tokens = lexer_tokens(Prog_print_a_open) => output_lines = <<>>
         /\ p_tokens = lexer_tokens(Prog_example) => Len(output_lines) = 2

\* parse returned two rendered strings for a sequence with two Terminators
\* and a token after the last of them.
C7_Witness ==
    /\ ppc = "done"
    /\ Len(Terms) = 2
    /\ Len(output_lines) = 2
    /\ Terms[2] < Len(p_tokens)

\* C8: a statement that starts with Keyword(Set) and has at least four
\* tokens is rendered as its second token's text, " = ", its fourth
\* token's text, whatever its other tokens are.
C8_SetRendering ==
    /\ \A n \in 1..Len(output_lines) :
         (Stmt(n)[1].token = "Set" /\ Len(Stmt(n)) >= 4)
           => output_lines[n]
                = Stmt(n)[2].part \o <<" ", "=", " ">> \o Stmt(n)[4].part
    /\ (ppc = "done" /\ p_tokens = lexer_tokens(Prog_set_a_0))
         => output_lines = <<<<"a", " ", "=", " ", "0">>>>
    /\ (ppc = "done" /\ p_tokens = lexer_tokens(Prog_set_long))
         => output_lines = <<<<"a", " ", "=", " ", "0">>>>

\* parse returned "a = 0" for the tokens of "set a = 0 + a ;".
C8_Witness ==
    /\ ppc = "done"
    /\ p_tokens = lexer_tokens(Prog_set_long)
    /\ output_lines = <<<<"a", " ", "=", " ", "0">>>>

\* C9: a statement that starts with Keyword(Set) and has fewer than four
\* tokens is never rendered and never skipped: parse does not return, the
\* pass goes on until it halts at the first such statement, with the out
\* of range access, and it halts for no other reason.
C9_ShortSetHalts ==
    /\ (\E n \in 1..Len(Terms) : ShortSet(n)) => ppc # "done"
    /\ \A n \in 1..Len(Terms) :
         ShortSet(n) =>
           /\ Len(output_lines) < n
           /\ ppc = "loop" => tok_i < Terms[n]
           /\ ppc = "panic" => tok_i <= Terms[n]
    /\ ppc = "panic" =>
         /\ Len(output_lines) < Len(Terms)
         /\ ShortSet(Len(output_lines) + 1)
         /\ tok_i = Terms[Len(output_lines) + 1]
    /\ ppc \in {"new", "loop"} => ENABLED NextParse

\* The pass halted at "set ;" after it had rendered a statement.
C9_Witness ==
    /\ ppc = "panic"
    /\ Len(output_lines) = 1
    /\ Len(current_line) = 2

\* C10: a statement that starts with Keyword(Print) is rendered as
\* "print(", its second token's text, ")".
C10_PrintRendering ==
    /\ \A n \in 1..Len(output_lines) :
         Stmt(n)[1].token = "Print"
           => output_lines[n]
                = <<"p", "r", "i", "n", "t", "(">> \o Stmt(n)[2].part \o <<")">>
    /\ (ppc = "done" /\ p_tokens = lexer_tokens(Prog_print_a))
         => output_lines = <<<<"p", "r", "i", "n", "t", "(", "a", ")">>>>

\* parse returned "print(a)" for the tokens of "print a = ;".
C10_Witness ==
    /\ ppc = "done"
    /\ Len(p_tokens) = 4
    /\ p_tokens[1].token = "Print"
    /\ p_tokens[3].token = "Assign"
    /\ output_lines = <<<<"p", "r", "i", "n", "t", "(", "a", ")">>>>

\* C11: a statement whose first token is neither Keyword(Set) nor
\* Keyword(Print) is rendered as the texts of all its tokens concatenated
\* with the last character removed, which is the concatenation of the
\* texts of its tokens but the Terminator, with no separator.
C11_ExecRendering ==
    /\ \A n \in 1..Len(output_lines) :
         Stmt(n)[1].token \notin {"Set", "Print"} =>
           LET all == Flatten([k \in 1..Len(Stmt(n)) |-> Stmt(n)[k].part]) IN
           /\ output_lines[n] = SubSeq(all, 1, Len(all) - 1)
           /\ output_lines[n] = TextBeforeLast(Stmt(n))
    /\ (ppc = "done" /\ p_tokens = lexer_tokens(Prog_x_plus_1))
         => output_lines = <<<<"x", "+", "1">>>>
    /\ (ppc = "done" /\ p_tokens = lexer_tokens(<<<<";">>>>))
         => output_lines = <<<<>>>>

\* parse returned "jumpa" and the empty string for the tokens of
\* "jump a ; ;".
C11_Witness ==
    /\ ppc = "done"
    /\ p_tokens = lexer_tokens(<<W_jump, <<"a">>, <<";">>, <<";">>>>)
    /\ output_lines = <<<<"j", "u", "m", "p", "a">>, <<>>>>

-----------------------------------------------------------------------------
(* The whole run of main: new_lexer, lexer(), then Parser { tokens:        *)
(* lexer.tokens } and parse().  The program is sequential and nothing      *)
(* suspends it, so a step that can be taken is taken: weak fairness of the *)
(* next-state relation.                                                    *)

Str_print_a == <<"p", "r", "i", "n", "t", " ", "a", ";">>
Str_set_semi == <<"a", ";", "s", "e", "t", ";">>

\* Sources whose statements start with a keyword.
MainTests == {Str_set_a_0, Str_print_a, Str_set_semi, Str_jump_m2_semi}

MainInputs == SeqsUpTo(Alphabet, MaxMainLen) \cup MainTests

InitMain ==
    /\ \E source \in MainInputs : new_lexer(source)
    /\ current_part = <<>>
    /\ line_num = 1
    /\ pc = "new"
    /\ TokIdle
    /\ ParseIdle

\* main builds the Parser from the tokens of the scan that returned.
MainParser ==
    /\ pc = "done"
    /\ ppc = "idle"
    /\ p_tokens' = tokens
    /\ ppc' = "new"
    /\ UNCHANGED <<toks, tok_i, current_line, output_lines, returned,
                   lexvars, tokvars>>

NextMain ==
    \/ LexerBegin
    \/ LexNewline
    \/ LexSkip
    \/ LexPush
    \/ LexEmit
    \/ LexReturn
    \/ MainParser
    \/ ParseBegin
    \/ ParsePush
    \/ ParseSet
    \/ ParsePrint
    \/ ParseExec
    \/ ParseReturn

SpecMain == InitMain /\ [][NextMain]_vars /\ WF_vars(NextMain)

\* C12: the scan ends, and the grouping of its token sequence ends: every
\* iteration of the scanner loop advances index by exactly one, the loop
\* runs only while index is below the padded length and returns with
\* index equal to it, and every iteration of the grouper takes one token.
C12_Terminates ==
    /\ [][(pc = "loop" /\ pc' = "loop") => index' = index + 1]_vars
    /\ [][(pc = "loop" /\ pc' = "done") => index = str_len(contents)]_vars
    /\ [](pc \in {"loop", "done", "panic"} => index <= str_len(contents))
    /\ [][(ppc = "loop" /\ ppc' = "loop") => tok_i' = tok_i + 1]_vars
    /\ [](ppc \in {"loop", "done", "panic"} => tok_i <= Len(p_tokens))
    /\ <>(pc \in {"done", "panic"})
    /\ [](pc = "done" => <>(ppc \in {"done", "panic"}))

\* A run that ended: the scan of a source with a newline returned two
\* tokens or more and their grouping returned.
C12_Witness ==
    /\ pc = "done"
    /\ ppc = "done"
    /\ Len(tokens) >= 2
    /\ \E p \in 1..Len(Source) : Source[p] = "\n"

\* C13: every advancement step sets previous_char to the old
\* current_char, current_char to the old next_char, next_char to the
\* character at the old index, and adds exactly one to index; so in every
\* state of a scan with index >= 2 (0-based reading of chars) current_char
\* is chars[index - 2] and next_char is chars[index - 1], and with
\* index >= 3 previous_char is chars[index - 3].
C13_Window ==
    /\ [][index' # index =>
            /\ previous_char' = current_char
            /\ current_char' = next_char
            /\ next_char' = chars[index + 1]
            /\ index' = index + 1]_vars
    /\ [][(pc = "loop" /\ pc' = "loop") => index' = index + 1]_vars
    /\ []((pc \in {"loop", "done", "panic"} /\ index >= 2) =>
            /\ current_char = chars[index - 1]
            /\ next_char = chars[index]
            /\ index >= 3 => previous_char = chars[index - 2])

\* The window holds the three characters of the source "1a-".
C13_Witness ==
    /\ pc = "loop"
    /\ index = 3
    /\ previous_char = "1"
    /\ current_char = "a"
    /\ next_char = "-"

\* C14: in every state of a scan the emitted tokens are in source order
\* with extents that do not overlap: lines never decrease along the
\* sequence, columns strictly increase, and each column is at least the
\* previous token's column plus the previous token's length.
C14_Ordered ==
    \A k \in 2..Len(tokens) :
      /\ tokens[k - 1].line_num <= tokens[k].line_num
      /\ tokens[k - 1].char_num < tokens[k].char_num
      /\ tokens[k].char_num
           >= tokens[k - 1].char_num + Len(tokens[k - 1].part)

\* The same, for the scans of sources of one-byte characters only.
C14_OrderedAscii ==
    (\A p \in 1..Len(Source) : len_utf8(Source[p]) = 1) => C14_Ordered

-----------------------------------------------------------------------------
(* The grouper called again on the same Parser.                            *)

NextReparse ==
    \/ ParseBegin
    \/ ParsePush
    \/ ParseSet
    \/ ParsePrint
    \/ ParseExec
    \/ ParseReturn
    \/ ParseAgain

SpecReparse == InitParse /\ [][NextReparse]_vars

\* C15: parse leaves the token sequence of the Parser unchanged (it works
\* on an equal copy), and every call of parse on the same Parser returns
\* the same sequence of rendered strings.
C15_TokensKept ==
    /\ [][p_tokens' = p_tokens]_vars
    /\ [](ppc \in {"loop", "done", "panic"} => toks = p_tokens)
    /\ [](\A i, j \in 1..Len(returned) : returned[i] = returned[j])

\* A second call of parse returned, after a first that rendered two
\* statements.
C15_Witness ==
    /\ ppc = "done"
    /\ Len(returned) = 2
    /\ Len(returned[1]) = 2
    /\ Len(p_tokens) >= 3

\* C16: whenever the scanner's current character is a space, a tab or a
\* newline, and when the scan ends, the accumulating buffer is empty; a
\* buffer that is not empty ends with the previous character, and neither
\* that character is a symbol nor the current one a blank or a symbol:
\* the token is emitted at the step of its last character.
C16_BufferClosed ==
    /\ (pc = "loop" /\ current_char \in Blank) => current_part = <<>>
    /\ pc \in {"done", "panic"} => current_part = <<>>
    /\ (pc = "loop" /\ current_part # <<>>) =>
         /\ current_part[Len(current_part)] = previous_char
         /\ previous_char \notin SymbolChars
         /\ current_char \notin Blank \cup SymbolChars

\* The scanner is on a newline, with the token "a" that ends right before
\* it emitted and the buffer empty.
C16_Witness ==
    /\ pc = "loop"
    /\ current_char = "\n"
    /\ previous_char = "a"
    /\ Len(tokens) = 1
    /\ tokens[1].part = <<"a">>
    /\ current_part = <<>>

\* C17: every closed statement that starts with a token other than the
\* Terminator has at least two tokens, so rendering a statement that
\* starts with Keyword(Print) never reads out of range: "print ;" is
\* rendered "print(;)", and the grouper fails only at a statement that
\* starts with Keyword(Set) and has fewer than four tokens.
C17_PrintInRange ==
    /\ \A n \in 1..Len(Terms) :
         Stmt(n)[1].token # "Semi" => Len(Stmt(n)) >= 2
    /\ ppc = "panic" =>
         /\ current_line[1].token = "Set"
         /\ Len(current_line) < 4
         /\ \E n \in 1..Len(Terms) : ShortSet(n)
    /\ \A n \in 1..Len(output_lines) :
         (Stmt(n)[1].token = "Print" /\ Len(Stmt(n)) = 2)
           => output_lines[n] = <<"p", "r", "i", "n", "t", "(", ";", ")">>
    /\ \A n \in 1..Len(Terms) :
         (Stmt(n)[1].token = "Print" /\ ppc = "loop" /\ tok_i >= Terms[n])
           => Len(output_lines) >= n

\* parse returned "print(;)" for the tokens of "print ;".
C17_Witness ==
    /\ ppc = "done"
    /\ p_tokens = lexer_tokens(<<W_print, <<";">>>>)
    /\ output_lines = <<<<"p", "r", "i", "n", "t", "(", ";", ")">>>>

====
